---- MODULE Spec2Model ----
(***************************************************************************)
(* Model of src/src/h1b_counting.py: the H-1B report pipeline.             *)
(*                                                                         *)
(*   load_data -> column resolution -> get_top_occupations ->              *)
(*   get_top_states -> write_data (occupations) -> write_data (states)     *)
(*                                                                         *)
(* Python values are modelled as follows.  A cell of the CSV file is a     *)
(* string; Python's None (a field missing from a short row) is the         *)
(* distinguished string NoneVal, which no cell of the file ever holds.     *)
(* An optional argument (x=None) is a sequence of length at most one:      *)
(* OptNone is None, Some(x) is x.  A record of the data table is a         *)
(* function from header names to cells.  Python compares strings by code   *)
(* point: StrOrder lists the strings of the model in that order.           *)
(***************************************************************************)
EXTENDS Integers, Sequences, FiniteSets, TLC

VARIABLES
    pc,                              \* position in main, or "lib" / "query"
    argc,                            \* len(sys.argv[1:])
    file,                            \* the input file argv[0]
    headers,                         \* main: headers
    data,                            \* main: data (mutated in place)
    soc_name_field_list,
    soc_code_field_list,
    certification_status_field_list,
    case_number_field_list,
    work_state_field_list,
    top_occupations,                 \* the last get_top_occupations call
    top_states,                      \* the last get_top_states call
    out_occ,                         \* the output file argv[1]
    out_st,                          \* the output file argv[2]
    err,                             \* the exception main re-raises
    call                             \* the last direct query_load / percentage call

vars == <<pc, argc, file, headers, data, soc_name_field_list, soc_code_field_list,
          certification_status_field_list, case_number_field_list,
          work_state_field_list, top_occupations, top_states, out_occ, out_st,
          err, call>>

\* -------------------------------------------------------------- bounds
MaxRows == 4         \* data rows of a single-column-per-role file
MaxMultiRows == 2    \* data rows of a file with several columns per role
MaxCount == 2        \* largest count passed to get_top_* by a direct caller
MaxQueryRows == 2    \* rows of a table passed to query_load by a direct caller
MaxPart == 4         \* largest part passed to percentage by a direct caller
MaxWhole == 16       \* largest whole passed to percentage by a direct caller

\* The count main passes to both report functions.
TopN == 10

\* ------------------------------------------------------- Python values
NoneVal == "<None>"
OptNone == <<>>
Some(x) == <<x>>

Range(s) == {s[i] : i \in 1..Len(s)}
Min(a, b) == IF a < b THEN a ELSE b

\* x is None or x == ''
IsEmpty(v) == v = NoneVal \/ v = ""

\* Strings of the model in Python's (code point) order.
StrOrder == <<"", "11-3021", "13-2011", "15-1132", "ACCOUNTANTS", "CA", "CERTIFIED",
              "DENIED", "DEVELOPERS", "I-1", "I-2", "MANAGERS", "NY", "TX", "a", "b">>

StrIndex(s) == CHOOSE i \in 1..Len(StrOrder) : StrOrder[i] = s

\* Columns of the report rows that hold integers; every other column holds strings.
IsIntCol(col) == col = "NUMBER_CERTIFIED_APPLICATIONS"

\* a < b on two values of column col
Lt(col, a, b) == IF IsIntCol(col) THEN a < b ELSE StrIndex(a) < StrIndex(b)

\* ------------------------------------------------ static column names
static_soc_name_field_list ==
    <<"pw_soc_title", "pw_soc_name", "suggested_soc_title", "suggested_soc_name",
      "pwd_soc_title", "pwd_soc_name", "soc_title", "lca_case_soc_name",
      "lca_case_soc_title", "soc_name">>
static_soc_code_field_list ==
    <<"pw_soc_code", "suggested_soc_code", "pwd_soc_code", "soc_code", "pw soc code",
      "lca_case_soc_code">>
static_certification_status_field_list ==
    <<"case_status", "case status", "approval_status", "status">>
static_case_number_field_list ==
    <<"case_number", "case number", "case_no", "lca_case_number">>
static_work_state_field_list ==
    <<"job_info_work_state", "primary_worksite_state", "worksite_state",
      "job info work state", "alien_work_state", "worksite_location_state",
      "state_2", "state_1", "lca_case_workloc1_state", "lca_case_workloc2_state">>

\* ------------------------------------------------- regular expressions
\* The characters of each header name of the model.
Chars ==
    "case_number" :> <<"c","a","s","e","_","n","u","m","b","e","r">> @@
    "h1b_case_no" :> <<"h","1","b","_","c","a","s","e","_","n","o">> @@
    "case_no" :> <<"c","a","s","e","_","n","o">> @@
    "case_status" :> <<"c","a","s","e","_","s","t","a","t","u","s">> @@
    "visa_case_status" :> <<"v","i","s","a","_","c","a","s","e","_","s","t","a","t","u","s">> @@
    "status" :> <<"s","t","a","t","u","s">> @@
    "soc_code" :> <<"s","o","c","_","c","o","d","e">> @@
    "pw_soc_code" :> <<"p","w","_","s","o","c","_","c","o","d","e">> @@
    "employer_soc_code" :> <<"e","m","p","l","o","y","e","r","_","s","o","c","_","c","o","d","e">> @@
    "lca_case_soc_code" :> <<"l","c","a","_","c","a","s","e","_","s","o","c","_","c","o","d","e">> @@
    "soc_name" :> <<"s","o","c","_","n","a","m","e">> @@
    "pw_soc_title" :> <<"p","w","_","s","o","c","_","t","i","t","l","e">> @@
    "job_soc_title" :> <<"j","o","b","_","s","o","c","_","t","i","t","l","e">> @@
    "lca_case_soc_name" :> <<"l","c","a","_","c","a","s","e","_","s","o","c","_","n","a","m","e">> @@
    "worksite_state" :> <<"w","o","r","k","s","i","t","e","_","s","t","a","t","e">> @@
    "emp_work_state" :> <<"e","m","p","_","w","o","r","k","_","s","t","a","t","e">> @@
    "job_work_state" :> <<"j","o","b","_","w","o","r","k","_","s","t","a","t","e">> @@
    "state_1" :> <<"s","t","a","t","e","_","1">> @@
    "lca_case_workloc1_state" :> <<"l","c","a","_","c","a","s","e","_","w","o","r","k","l","o","c","1","_","s","t","a","t","e">> @@
    "employer_name" :> <<"e","m","p","l","o","y","e","r","_","n","a","m","e">>

\* w occurs in s starting at position i
OccursAt(s, w, i) == /\ i >= 1
                     /\ i + Len(w) - 1 <= Len(s)
                     /\ \A j \in 1..Len(w) : s[i + j - 1] = w[j]

\* re.compile('.*(m1|m2|..).*t1$' or '...t2$').match(h): some alternative of mids
\* occurs in h and, after it, h ends in one of tails.
\* re is [mids |-> set of character sequences, tails |-> set of character sequences].
Match(re, h) ==
    LET s == Chars[h] IN
    \E m \in re.mids, t \in re.tails :
        \E i \in 1..Len(s) :
            /\ OccursAt(s, m, i)
            /\ i + Len(m) <= Len(s) - Len(t) + 1
            /\ OccursAt(s, t, Len(s) - Len(t) + 1)

soc_name_re == [mids |-> {<<"s","o","c">>},
                tails |-> {<<"_","t","i","t","l","e">>, <<"_","n","a","m","e">>}]
soc_code_re == [mids |-> {<<"s","o","c">>}, tails |-> {<<"_","c","o","d","e">>}]
certification_status_re == [mids |-> {<<"c","a","s","e">>, <<"a","p","p","r","o","v","a","l">>},
                            tails |-> {<<"s","t","a","t","u","s">>}]
case_number_re == [mids |-> {<<"c","a","s","e">>},
                   tails |-> {<<"_","n","u","m","b","e","r">>, <<"_","n","o">>}]
work_state_re == [mids |-> {<<"w","o","r","k">>, <<"w","o","r","k","s","i","t","e">>},
                  tails |-> {<<"_","s","t","a","t","e">>}]

\* Faulty variant of static_pass: the matches in the order of the static list.
static_pass_alias_order(hs, static_list) ==
    SelectSeq(static_list, LAMBDA k : k \in Range(hs))

\* [k for k in headers if k in static_list]
static_pass(hs, static_list) == SelectSeq(hs, LAMBDA k : k \in Range(static_list))

\* list(filter(re.match, headers))
regex_pass(hs, re) == SelectSeq(hs, LAMBDA k : Match(re, k))

\* The field list of one role: the static pass, and the regular expression only
\* when the static pass found nothing.
field_list(hs, static_list, re) ==
    IF static_pass(hs, static_list) = <<>> THEN regex_pass(hs, re)
    ELSE static_pass(hs, static_list)

\* The condition under which main raises "Could not find the required fields".
fields_missing(names, codes, statuses, cases, states) ==
    \/ Len(names) = 0
    \/ Len(codes) = 0
    \/ Len(statuses) = 0
    \/ Len(cases) = 0
    \/ Len(states) = 0
    \/ Len(names) # Len(codes)

\* ------------------------------------------------------------ load_data
\* x.lower() on the header names of the model; the others hold no upper-case letter.
Lower(h) == CASE h = "CASE_STATUS" -> "case_status"
              [] h = "SOC_CODE" -> "soc_code"
              [] OTHER -> h

\* The position of the last column named h (a later duplicate wins in a dict).
LastIndex(hs, h) == CHOOSE i \in 1..Len(hs) :
                        /\ hs[i] = h
                        /\ \A j \in (i + 1)..Len(hs) : hs[j] # h

\* One row of csv.DictReader: a field missing from a short row is None.
\* (Rows longer than the header line are not among the inputs of the model.)
dict_row(hs, row) ==
    [h \in Range(hs) |-> IF LastIndex(hs, h) <= Len(row) THEN row[LastIndex(hs, h)]
                         ELSE NoneVal]

\* load_data(filename): [err, headers, data].  f is [readable, lines]: lines[1] is
\* the header line, the others are the data lines (<<>> is a blank line, which
\* csv.DictReader skips).  An empty file has no header line: next(reader, None) is
\* None and map() over it raises TypeError.
load_data(f) ==
    IF ~f.readable THEN [err |-> "IOError", headers |-> <<>>, data |-> <<>>]
    ELSE IF Len(f.lines) = 0 THEN [err |-> "TypeError", headers |-> <<>>, data |-> <<>>]
    ELSE LET hs == [i \in 1..Len(f.lines[1]) |-> Lower(f.lines[1][i])]
             rows == SelectSeq(Tail(f.lines), LAMBDA r : Len(r) > 0)
         IN  IF Len(rows) = 0
             THEN [err |-> "ValueError", headers |-> <<>>, data |-> <<>>]
             ELSE [err |-> "", headers |-> hs,
                   data |-> [i \in 1..Len(rows) |-> dict_row(hs, rows[i])]]

\* ------------------------------------------------------- reconciliation
\* Faulty variant of coalesce: a later non-empty column overwrites the primary one.
RECURSIVE coalesce_last(_, _, _)
coalesce_last(x, fl, i) ==
    IF i > Len(fl) THEN x
    ELSE coalesce_last([x EXCEPT ![fl[1]] = IF IsEmpty(x[fl[i]]) THEN x[fl[1]] ELSE x[fl[i]]],
                       fl, i + 1)

\* for i in range(1, len(fl)):
\*     x.update({fl[0]: x[fl[i]] if x[fl[0]] is None or x[fl[0]] == '' else x[fl[0]]})
\* from (1-based) position i on.
RECURSIVE coalesce(_, _, _)
coalesce(x, fl, i) ==
    IF i > Len(fl) THEN x
    ELSE coalesce([x EXCEPT ![fl[1]] = IF IsEmpty(x[fl[1]]) THEN x[fl[i]] ELSE x[fl[1]]],
                  fl, i + 1)

\* if len(fl) > 1: for x in data: <the loop above>
reconcile(d, fl) ==
    IF Len(fl) > 1 THEN [k \in 1..Len(d) |-> coalesce(d[k], fl, 2)] ELSE d

\* Faulty variant of coalesce_soc: the code is copied, the name is not.
RECURSIVE coalesce_soc_code_only(_, _, _, _)
coalesce_soc_code_only(x, codes, names, i) ==
    IF i > Len(codes) THEN x
    ELSE coalesce_soc_code_only(IF IsEmpty(x[codes[1]])
                                THEN [x EXCEPT ![codes[1]] = x[codes[i]]]
                                ELSE x,
                                codes, names, i + 1)

\* for i in range(1, len(codes)):
\*     if x[codes[0]] is None or x[codes[0]] == '':
\*         x.update({codes[0]: x[codes[i]]}); x.update({names[0]: x[names[i]]})
\* (main calls get_top_occupations only with len(names) == len(codes).)
RECURSIVE coalesce_soc(_, _, _, _)
coalesce_soc(x, codes, names, i) ==
    IF i > Len(codes) THEN x
    ELSE coalesce_soc(IF IsEmpty(x[codes[1]])
                      THEN [x EXCEPT ![codes[1]] = x[codes[i]], ![names[1]] = x[names[i]]]
                      ELSE x,
                      codes, names, i + 1)

reconcile_soc(d, codes, names) ==
    IF Len(codes) > 1 THEN [k \in 1..Len(d) |-> coalesce_soc(d[k], codes, names, 2)]
    ELSE d

\* ----------------------------------------------------------- query_load
\* The filter lambda of the report functions:
\*   r[status] == "CERTIFIED" and r[c] is not None and r[c] != ''  for each c
\* f is [status |-> column, nonempty |-> columns].
filter_holds(f, r) ==
    /\ r[f.status] = "CERTIFIED"
    /\ \A i \in 1..Len(f.nonempty) : ~IsEmpty(r[f.nonempty[i]])

\* {k: v for k, v in i.items() if k in project_keys}
project(r, project_keys) ==
    [k \in (DOMAIN r) \cap Range(project_keys) |-> r[k]]

\* cmp(a, b) = (a > b) - (a < b), on two values of column col
cmp(col, a, b) ==
    (IF Lt(col, b, a) THEN 1 ELSE 0) - (IF Lt(col, a, b) THEN 1 ELSE 0)

\* Faulty variant of make_comparers: the direction is ignored, every key ascends.
make_comparers_ascending(sort_keys, sort_order) ==
    [i \in 1..Min(Len(sort_keys), Len(sort_order)) |-> [col |-> sort_keys[i], mult |-> 1]]

\* (itemgetter(col.strip()), -1) if order == 'Descending' else (itemgetter(col.strip()), 1)
\* for col, order in zip(sort_keys, sort_order); no name of the model has
\* surrounding white space, so col.strip() is col.
make_comparers(sort_keys, sort_order) ==
    [i \in 1..Min(Len(sort_keys), Len(sort_order)) |->
        [col |-> sort_keys[i], mult |-> IF sort_order[i] = "Descending" THEN -1 ELSE 1]]

\* comparer(left, right): the first non-zero cmp(fn(left), fn(right)) * mult, else 0;
\* from (1-based) comparer i on.
RECURSIVE comparer(_, _, _, _)
comparer(left, right, comparers, i) ==
    IF i > Len(comparers) THEN 0
    ELSE LET c == cmp(comparers[i].col, left[comparers[i].col], right[comparers[i].col])
                    * comparers[i].mult
         IN  IF c # 0 THEN c ELSE comparer(left, right, comparers, i + 1)

\* sorted(data, key=cmp_to_key(comparer)): Python's sort is stable, so the result
\* is the one of a stable insertion sort.
RECURSIVE sorted(_, _)
sorted(d, comparers) ==
    IF Len(d) = 0 THEN <<>>
    ELSE LET s == sorted(SubSeq(d, 1, Len(d) - 1), comparers)
             x == d[Len(d)]
             p == Cardinality({j \in 1..Len(s) : comparer(x, s[j], comparers, 1) >= 0})
         IN  SubSeq(s, 1, p) \o <<x>> \o SubSeq(s, p + 1, Len(s))

\* Faulty variant of sorted_by_keys: the table is left in its order.
unsorted_by_keys(d, sort_keys) == d

\* sorted(data, key=lambda r: [r[k] for k in sort_keys]): lists compare
\* lexicographically, every key ascending.
sorted_by_keys(d, sort_keys) ==
    sorted(d, [i \in 1..Len(sort_keys) |-> [col |-> sort_keys[i], mult |-> 1]])

\* Faulty variant of order_matches: a shorter sort_order is let through.
order_matches_loose(sort_keys, sort_order) == Len(sort_order) <= Len(sort_keys)

\* len(sort_order) == len(sort_keys)
order_matches(sort_keys, sort_order) == Len(sort_order) = Len(sort_keys)

\* query_load(data, filter_expression, project_keys, sort_keys, sort_order):
\* [err, rows].  Each optional argument is OptNone or Some(value).
query_load(d, filter_expression, project_keys, sort_keys, sort_order) ==
    LET d1 == IF filter_expression # OptNone
              THEN SelectSeq(d, LAMBDA r : filter_holds(filter_expression[1], r))
              ELSE d
        d2 == IF project_keys # OptNone
              THEN [i \in 1..Len(d1) |-> project(d1[i], project_keys[1])]
              ELSE d1
    IN  IF sort_keys # OptNone
        THEN IF sort_order # OptNone
             THEN IF order_matches(sort_keys[1], sort_order[1])
                  THEN [err |-> "",
                        rows |-> sorted(d2, make_comparers(sort_keys[1], sort_order[1]))]
                  ELSE [err |-> "ValueError", rows |-> <<>>]
             ELSE [err |-> "", rows |-> sorted_by_keys(d2, sort_keys[1])]
        ELSE [err |-> "", rows |-> d2]

\* ----------------------------------------------------------- percentage
\* Faulty variant of round_half_even: the quotient is cut off.
round_down(num, den) == num \div den

\* num / den rounded to the nearest integer, a tie to the even one.
round_half_even(num, den) ==
    LET q == num \div den
        r == num % den
    IN  IF 2 * r < den THEN q
        ELSE IF 2 * r > den THEN q + 1
        ELSE IF q % 2 = 0 THEN q ELSE q + 1

\* percentage(part, whole): [err, val], val in tenths of a percent.
\* round(x, 1) of a float rounds the exact binary value to the nearest tenth, a
\* tie (x.25, x.75: exactly representable) to the even digit.
percentage(part, whole) ==
    IF whole = 0 THEN [err |-> "ValueError", val |-> 0]
    ELSE [err |-> "", val |-> round_half_even(1000 * part, whole)]

\* str(v) of the float v = tenths / 10: the shortest repr, one decimal.
str_float(tenths) == ToString(tenths \div 10) \o "." \o ToString(tenths % 10)

\* ------------------------------------------------------ report functions
n_applications == "NUMBER_CERTIFIED_APPLICATIONS"
percent == "PERCENTAGE"

\* itertools.groupby(d, key=lambda x: x[key]) with len(list(v)) of each group:
\* the runs of consecutive records with equal keys, [k, part] each.
RECURSIVE groupby(_, _)
groupby(d, key) ==
    IF Len(d) = 0 THEN <<>>
    ELSE LET g == groupby(SubSeq(d, 1, Len(d) - 1), key)
             k == d[Len(d)][key]
         IN  IF Len(g) > 0 /\ g[Len(g)].k = k
             THEN [g EXCEPT ![Len(g)].part = @ + 1]
             ELSE Append(g, [k |-> k, part |-> 1])

\* Faulty variant of grouped_data: a percentage is computed before the loop, so
\* an empty filtered_data raises.
grouped_data_eager(filtered_data, key, label) ==
    LET g == groupby(filtered_data, key)
        whole == Len(filtered_data)
    IN  IF percentage(0, whole).err # ""
        THEN [err |-> "ValueError", rows |-> <<>>]
        ELSE [err |-> "",
              rows |-> [i \in 1..Len(g) |->
                          (label :> g[i].k) @@
                          ("NUMBER_CERTIFIED_APPLICATIONS" :> g[i].part) @@
                          ("PERCENTAGE" :> str_float(percentage(g[i].part, whole).val) \o "%")]]

\* The loop that builds grouped_data: one row per group,
\* {label: k, n_applications: part, percent: str(percentage(part, whole)) + "%"}
\* with whole = len(filtered_data).  [err, rows]: percentage may raise.
grouped_data(filtered_data, key, label) ==
    LET g == groupby(filtered_data, key)
        whole == Len(filtered_data)
    IN  IF \E i \in 1..Len(g) : percentage(g[i].part, whole).err # ""
        THEN [err |-> "ValueError", rows |-> <<>>]
        ELSE [err |-> "",
              rows |-> [i \in 1..Len(g) |->
                          (label :> g[i].k) @@
                          (n_applications :> g[i].part) @@
                          (percent :> str_float(percentage(g[i].part, whole).val) \o "%")]]

\* sorted_data[:count], count >= 0
take(s, count) == SubSeq(s, 1, Min(count, Len(s)))

\* What a report function hands back: the exception it raises (err, "" for none),
\* its return value (headers, rows) and the data table as it leaves it.
raised(e, d) == [err |-> e, headers |-> <<>>, rows |-> <<>>, data |-> d]

\* Faulty variant of reconcile_occupations: its copy of the status loop lets a
\* later non-empty status overwrite the primary one.
reconcile_occupations_last_status(d, names, codes, statuses, cases) ==
    reconcile_soc(IF Len(statuses) > 1
                  THEN [k \in 1..Len(reconcile(d, cases)) |->
                            coalesce_last(reconcile(d, cases)[k], statuses, 2)]
                  ELSE reconcile(d, cases),
                  codes, names)

\* The reconciliation get_top_occupations starts with: the case numbers, the
\* statuses, then the codes with their names.
reconcile_occupations(d, names, codes, statuses, cases) ==
    reconcile_soc(reconcile(reconcile(d, cases), statuses), codes, names)

\* The reconciliation get_top_states starts with: the work states, the case
\* numbers, then the statuses.
reconcile_states(d, states, statuses, cases) ==
    reconcile(reconcile(reconcile(d, states), cases), statuses)

\* get_top_occupations(count, data, soc_name_field_list, soc_code_field_list,
\*                     certification_status_field_list, case_number_field_list)
get_top_occupations(count, d, names, codes, statuses, cases) ==
    LET top == "TOP_OCCUPATIONS"
        d3 == reconcile_occupations(d, names, codes, statuses, cases)
        filtered == query_load(d3,
                               Some([status |-> statuses[1],
                                     nonempty |-> <<codes[1], names[1]>>]),
                               Some(<<cases[1], names[1]>>), Some(<<names[1]>>), OptNone)
        grouped == grouped_data(filtered.rows, names[1], top)
        sorted_data == query_load(grouped.rows, OptNone, OptNone,
                                  Some(<<n_applications, top>>),
                                  Some(<<"Descending", "Ascending">>))
    IN  IF filtered.err # "" THEN raised(filtered.err, d3)
        ELSE IF grouped.err # "" THEN raised(grouped.err, d3)
        ELSE IF sorted_data.err # "" THEN raised(sorted_data.err, d3)
        ELSE [err |-> "", headers |-> <<top, n_applications, percent>>,
              rows |-> take(sorted_data.rows, count), data |-> d3]

\* get_top_states(count, data, work_state_field_list,
\*                certification_status_field_list, case_number_field_list)
get_top_states(count, d, states, statuses, cases) ==
    LET top == "TOP_STATES"
        d3 == reconcile_states(d, states, statuses, cases)
        filtered == query_load(d3,
                               Some([status |-> statuses[1], nonempty |-> <<states[1]>>]),
                               Some(<<cases[1], states[1]>>), Some(<<states[1]>>), OptNone)
        grouped == grouped_data(filtered.rows, states[1], top)
        sorted_data == query_load(grouped.rows, OptNone, OptNone,
                                  Some(<<n_applications, top>>),
                                  Some(<<"Descending", "Ascending">>))
    IN  IF filtered.err # "" THEN raised(filtered.err, d3)
        ELSE IF grouped.err # "" THEN raised(grouped.err, d3)
        ELSE IF sorted_data.err # "" THEN raised(sorted_data.err, d3)
        ELSE [err |-> "", headers |-> <<top, n_applications, percent>>,
              rows |-> take(sorted_data.rows, count), data |-> d3]

\* ----------------------------------------------------------- write_data
Absent == [state |-> "absent", lines |-> <<>>]

\* The lines csv.DictWriter writes: the header line, then one line per row with
\* the row's values in header order.
csv_lines(hs, rows) ==
    <<hs>> \o [i \in 1..Len(rows) |-> [j \in 1..Len(hs) |-> rows[i][hs[j]]]]

\* Faulty variant of written: the rows are never written.
written_header_only(hs, rows) == [state |-> "written", lines |-> <<hs>>]

\* write_data(headers, data, filename) that returns: the file holds every line.
written(hs, rows) == [state |-> "written", lines |-> csv_lines(hs, rows)]

\* write_data that raises IOError after open(filename, 'w') succeeded: the file
\* holds the first k lines only.
partial(hs, rows, k) == [state |-> "partial", lines |-> SubSeq(csv_lines(hs, rows), 1, k)]

\* ------------------------------------------------------------ the state
NotCalled == [called |-> FALSE, count |-> 0, err |-> "", headers |-> <<>>, rows |-> <<>>]
Returned(count, r) ==
    [called |-> TRUE, count |-> count, err |-> r.err, headers |-> r.headers, rows |-> r.rows]

NoErr == [type |-> "", at |-> ""]
NoCall == [fn |-> "", filter |-> OptNone, project_keys |-> OptNone, sort_keys |-> OptNone,
           sort_order |-> OptNone, part |-> 0, whole |-> 0, err |-> "", rows |-> <<>>,
           val |-> 0]

\* Sequences over S of length at most n
SeqUpTo(S, n) == UNION {[1..k -> S] : k \in 0..n}

\* s reversed
Reverse(s) == [i \in 1..Len(s) |-> s[Len(s) + 1 - i]]

\* ---------------------------------------------------- the inputs of main
\* Header names as the file spells them: statically known names and pattern-only
\* names of each role.
RawHeaderOrder ==
    <<"case_number", "h1b_case_no", "CASE_STATUS", "visa_case_status", "SOC_CODE",
      "employer_soc_code", "soc_name", "pw_soc_title", "job_soc_title",
      "worksite_state", "emp_work_state", "job_work_state">>

\* The names of s at the positions in P, their order kept
RECURSIVE Pick(_, _, _)
Pick(s, P, i) ==
    IF i > Len(s) THEN <<>>
    ELSE (IF i \in P THEN <<s[i]>> ELSE <<>>) \o Pick(s, P, i + 1)

\* A header line: a selection P of the names, in the order above or reversed.
MainHeaderLine(P, rev) ==
    IF rev THEN Reverse(Pick(RawHeaderOrder, P, 1)) ELSE Pick(RawHeaderOrder, P, 1)

\* The cell a data line of kind t holds under header h.
MainCell(t, h) ==
    LET l == Lower(h) IN
    IF l \in {"case_number", "h1b_case_no"} THEN (IF t = 1 THEN "I-1" ELSE "I-2")
    ELSE IF l = "case_status" THEN "CERTIFIED"
    ELSE IF l = "visa_case_status" THEN (IF t = 1 THEN "DENIED" ELSE "CERTIFIED")
    ELSE IF l \in {"soc_code", "employer_soc_code"}
         THEN (IF t = 1 THEN "15-1132" ELSE "13-2011")
    ELSE IF l \in {"soc_name", "pw_soc_title", "job_soc_title"}
         THEN (IF t = 1 THEN "DEVELOPERS" ELSE "ACCOUNTANTS")
    ELSE IF t = 1 THEN "CA" ELSE "TX"

\* What follows the header line h: nothing, a blank line, or a line of each kind.
MainBody(h, b) ==
    CASE b = 1 -> <<>>
      [] b = 2 -> << <<>> >>
      [] OTHER -> <<[j \in 1..Len(h) |-> MainCell(1, h[j])],
                    [j \in 1..Len(h) |-> MainCell(2, h[j])]>>

\* A readable file with a header line
MainFile(P, rev, b) ==
    [readable |-> TRUE,
     lines |-> <<MainHeaderLine(P, rev)>> \o MainBody(MainHeaderLine(P, rev), b)]

\* ------------------------------------------------------------------ main
Init ==
    /\ pc = "start"
    /\ \/ /\ argc = 3
          /\ \E P \in SUBSET (1..Len(RawHeaderOrder)), rev \in BOOLEAN, b \in 1..3 :
                 file = MainFile(P, rev, b)
       \* A file that cannot be read, and an empty file.
       \/ /\ argc = 3
          /\ file \in {[readable |-> FALSE, lines |-> <<>>], [readable |-> TRUE, lines |-> <<>>]}
       \* With a wrong argument count main reads no file: one file stands for all.
       \/ argc \in {2, 4} /\ file = [readable |-> TRUE, lines |-> <<>>]
    /\ headers = <<>>
    /\ data = <<>>
    /\ soc_name_field_list = <<>>
    /\ soc_code_field_list = <<>>
    /\ certification_status_field_list = <<>>
    /\ case_number_field_list = <<>>
    /\ work_state_field_list = <<>>
    /\ top_occupations = NotCalled
    /\ top_states = NotCalled
    /\ out_occ = Absent
    /\ out_st = Absent
    /\ err = NoErr
    /\ call = NoCall

\* main's except clause: the exception is logged and raised again.
Fail(type, at) == /\ pc' = "failed"
                  /\ err' = [type |-> type, at |-> at]

\* if len(argv) != 3: raise ValueError(...)
CheckArgs ==
    /\ pc = "start"
    /\ IF argc # 3 THEN Fail("ValueError", "args")
       ELSE pc' = "load" /\ UNCHANGED err
    /\ UNCHANGED <<argc, file, headers, data, soc_name_field_list, soc_code_field_list,
                   certification_status_field_list, case_number_field_list,
                   work_state_field_list, top_occupations, top_states, out_occ, out_st,
                   call>>

\* headers, data = load_data(argv[0])
LoadData ==
    /\ pc = "load"
    /\ LET r == load_data(file) IN
       IF r.err # "" THEN Fail(r.err, "load") /\ UNCHANGED <<headers, data>>
       ELSE /\ pc' = "resolve"
            /\ headers' = r.headers
            /\ data' = r.data
            /\ UNCHANGED err
    /\ UNCHANGED <<argc, file, soc_name_field_list, soc_code_field_list,
                   certification_status_field_list, case_number_field_list,
                   work_state_field_list, top_occupations, top_states, out_occ, out_st,
                   call>>

\* The five field lists and the check of their lengths.
Resolve ==
    /\ pc = "resolve"
    /\ soc_name_field_list' = field_list(headers, static_soc_name_field_list, soc_name_re)
    /\ soc_code_field_list' = field_list(headers, static_soc_code_field_list, soc_code_re)
    /\ certification_status_field_list' =
           field_list(headers, static_certification_status_field_list,
                      certification_status_re)
    /\ case_number_field_list' =
           field_list(headers, static_case_number_field_list, case_number_re)
    /\ work_state_field_list' =
           field_list(headers, static_work_state_field_list, work_state_re)
    /\ IF fields_missing(soc_name_field_list', soc_code_field_list',
                         certification_status_field_list', case_number_field_list',
                         work_state_field_list')
       THEN Fail("ValueError", "resolve")
       ELSE pc' = "occupations" /\ UNCHANGED err
    /\ UNCHANGED <<argc, file, headers, data, top_occupations, top_states, out_occ,
                   out_st, call>>

\* occ_headers, top_occupations = get_top_occupations(10, data, ...)
Occupations ==
    /\ pc = "occupations"
    /\ LET r == get_top_occupations(TopN, data, soc_name_field_list, soc_code_field_list,
                                    certification_status_field_list,
                                    case_number_field_list) IN
       /\ data' = r.data
       /\ top_occupations' = Returned(TopN, r)
       /\ IF r.err # "" THEN Fail(r.err, "occupations")
          ELSE pc' = "states" /\ UNCHANGED err
    /\ UNCHANGED <<argc, file, headers, soc_name_field_list, soc_code_field_list,
                   certification_status_field_list, case_number_field_list,
                   work_state_field_list, top_states, out_occ, out_st, call>>

\* st_headers, top_states = get_top_states(10, data, ...)
States ==
    /\ pc = "states"
    /\ LET r == get_top_states(TopN, data, work_state_field_list,
                               certification_status_field_list,
                               case_number_field_list) IN
       /\ data' = r.data
       /\ top_states' = Returned(TopN, r)
       /\ IF r.err # "" THEN Fail(r.err, "states")
          ELSE pc' = "write_occ" /\ UNCHANGED err
    /\ UNCHANGED <<argc, file, headers, soc_name_field_list, soc_code_field_list,
                   certification_status_field_list, case_number_field_list,
                   work_state_field_list, top_occupations, out_occ, out_st, call>>

\* write_data(occ_headers, top_occupations, argv[1]): it returns, or open() raises
\* IOError and the file is untouched, or a write raises IOError part-way.
WriteOccupations ==
    /\ pc = "write_occ"
    /\ \/ /\ out_occ' = written(top_occupations.headers, top_occupations.rows)
          /\ pc' = "write_st"
          /\ UNCHANGED err
       \/ /\ UNCHANGED out_occ
          /\ Fail("IOError", "write_occ")
       \/ /\ \E k \in 0..Len(top_occupations.rows) :
                 out_occ' = partial(top_occupations.headers, top_occupations.rows, k)
          /\ Fail("IOError", "write_occ")
    /\ UNCHANGED <<argc, file, headers, data, soc_name_field_list, soc_code_field_list,
                   certification_status_field_list, case_number_field_list,
                   work_state_field_list, top_occupations, top_states, out_st, call>>

\* write_data(st_headers, top_states, argv[2])
WriteStates ==
    /\ pc = "write_st"
    /\ \/ /\ out_st' = written(top_states.headers, top_states.rows)
          /\ pc' = "done"
          /\ UNCHANGED err
       \/ /\ UNCHANGED out_st
          /\ Fail("IOError", "write_st")
       \/ /\ \E k \in 0..Len(top_states.rows) :
                 out_st' = partial(top_states.headers, top_states.rows, k)
          /\ Fail("IOError", "write_st")
    /\ UNCHANGED <<argc, file, headers, data, soc_name_field_list, soc_code_field_list,
                   certification_status_field_list, case_number_field_list,
                   work_state_field_list, top_occupations, top_states, out_occ, call>>

Next == \/ CheckArgs
        \/ LoadData
        \/ Resolve
        \/ Occupations
        \/ States
        \/ WriteOccupations
        \/ WriteStates

Spec == Init /\ [][Next]_vars

\* ----------------------------------------- direct callers of the reports
\* A file with one column per role.
SingleHeader == <<"case_number", "case_status", "soc_code", "soc_name", "worksite_state">>

\* Its data lines; the last is short (no work state) and has no code.
SingleRows ==
    {<<"I-1", "CERTIFIED", "15-1132", "DEVELOPERS", "CA">>,
     <<"I-2", "CERTIFIED", "13-2011", "ACCOUNTANTS", "TX">>,
     <<"I-1", "CERTIFIED", "11-3021", "MANAGERS", "NY">>,
     <<"I-2", "DENIED", "15-1132", "DEVELOPERS", "CA">>,
     <<"I-1", "CERTIFIED", "", "DEVELOPERS">>}

\* A file with several columns per role: two case numbers, two statuses, three
\* (code, name) pairs, three work states.
MultiHeader ==
    <<"case_number", "case_no", "case_status", "status",
      "pw_soc_code", "pw_soc_title", "soc_code", "soc_name",
      "lca_case_soc_code", "lca_case_soc_name",
      "worksite_state", "state_1", "lca_case_workloc1_state">>

\* A data line from the cells of each role
MultiRow(c, s, o, w) == c \o s \o o \o w

CaseCells == {<<"I-1", "">>, <<"", "I-2">>}
StatusCells == {<<"CERTIFIED", "">>, <<"", "CERTIFIED">>, <<"DENIED", "CERTIFIED">>,
                <<"", "">>}
SocCells ==
    {<<"15-1132", "DEVELOPERS", "", "", "", "">>,
     <<"", "MANAGERS", "13-2011", "ACCOUNTANTS", "11-3021", "MANAGERS">>,
     <<"", "", "", "ACCOUNTANTS", "11-3021", "MANAGERS">>,
     <<"", "DEVELOPERS", "", "ACCOUNTANTS", "", "MANAGERS">>,
     <<"", "DEVELOPERS", "13-2011", "", "11-3021", "MANAGERS">>}
\* The short ones leave the last work states missing.
StateCells == {<<"CA", "", "">>, <<"", "TX", "NY">>, <<"", "", "NY">>, <<"">>}

\* Its data lines: the cells of one role varied at a time, and a line that ends
\* after the first status.
MultiRows ==
    {MultiRow(c, <<"CERTIFIED", "">>, <<"15-1132", "DEVELOPERS", "", "", "", "">>,
              <<"CA", "", "">>) : c \in CaseCells}
    \cup {MultiRow(<<"I-1", "">>, st, <<"15-1132", "DEVELOPERS", "", "", "", "">>,
                   <<"CA", "", "">>) : st \in StatusCells}
    \cup {MultiRow(<<"I-1", "">>, <<"CERTIFIED", "">>, o, <<"CA", "", "">>) : o \in SocCells}
    \cup {MultiRow(<<"I-1", "">>, <<"", "CERTIFIED">>,
                   <<"", "MANAGERS", "13-2011", "ACCOUNTANTS", "11-3021", "MANAGERS">>, w) :
              w \in StateCells}
    \cup {<<"I-2", "", "CERTIFIED">>}

SingleFiles ==
    {[readable |-> TRUE, lines |-> <<SingleHeader>> \o ls] : ls \in SeqUpTo(SingleRows, MaxRows)}
MultiFiles ==
    {[readable |-> TRUE, lines |-> <<MultiHeader>> \o ls] :
         ls \in SeqUpTo(MultiRows, MaxMultiRows)}

\* A caller that has loaded a file of files and resolved its columns as main
\* does, and asks for each report once, in either order, with a count of its
\* own.  (load_data raises on a file without data lines; such a caller passes the
\* empty table.)
InitCaller(files) ==
    /\ pc = "lib"
    /\ argc = 3
    /\ file \in files
    /\ headers = file.lines[1]
    /\ data = [i \in 1..(Len(file.lines) - 1) |-> dict_row(headers, file.lines[i + 1])]
    /\ soc_name_field_list = field_list(headers, static_soc_name_field_list, soc_name_re)
    /\ soc_code_field_list = field_list(headers, static_soc_code_field_list, soc_code_re)
    /\ certification_status_field_list =
           field_list(headers, static_certification_status_field_list,
                      certification_status_re)
    /\ case_number_field_list =
           field_list(headers, static_case_number_field_list, case_number_re)
    /\ work_state_field_list =
           field_list(headers, static_work_state_field_list, work_state_re)
    /\ top_occupations = NotCalled
    /\ top_states = NotCalled
    /\ out_occ = Absent
    /\ out_st = Absent
    /\ err = NoErr
    /\ call = NoCall

\* The caller's file has one column per role.
InitLib == InitCaller(SingleFiles)

\* The caller's file has several columns per role.
InitMulti == InitCaller(MultiFiles)

\* get_top_occupations(count, data, ...) by a direct caller
CallOccupations ==
    /\ pc = "lib"
    /\ ~top_occupations.called
    /\ \E count \in 0..MaxCount :
           LET r == get_top_occupations(count, data, soc_name_field_list,
                                        soc_code_field_list,
                                        certification_status_field_list,
                                        case_number_field_list) IN
           /\ data' = r.data
           /\ top_occupations' = Returned(count, r)
    /\ UNCHANGED <<pc, argc, file, headers, soc_name_field_list, soc_code_field_list,
                   certification_status_field_list, case_number_field_list,
                   work_state_field_list, top_states, out_occ, out_st, err, call>>

\* get_top_states(count, data, ...) by a direct caller
CallStates ==
    /\ pc = "lib"
    /\ ~top_states.called
    /\ \E count \in 0..MaxCount :
           LET r == get_top_states(count, data, work_state_field_list,
                                   certification_status_field_list,
                                   case_number_field_list) IN
           /\ data' = r.data
           /\ top_states' = Returned(count, r)
    /\ UNCHANGED <<pc, argc, file, headers, soc_name_field_list, soc_code_field_list,
                   certification_status_field_list, case_number_field_list,
                   work_state_field_list, top_occupations, out_occ, out_st, err, call>>

NextLib == CallOccupations \/ CallStates

SpecLib == InitLib /\ [][NextLib]_vars

SpecMulti == InitMulti /\ [][NextLib]_vars

\* ------------------------------ direct callers of query_load, percentage
\* A caller that makes one call of query_load or of percentage.
\* Tables for query_load: column "a" holds a status, column "b" a work state.
QueryRows == {("a" :> x) @@ ("b" :> y) : x \in {"CERTIFIED", "DENIED"}, y \in {"", "CA", "TX"}}

QueryFilters == {OptNone, Some([status |-> "a", nonempty |-> <<"b">>])}
QueryProjections == {OptNone, Some(<<"a", "b">>), Some(<<"b">>)}
QuerySortKeys == {OptNone, Some(<<>>), Some(<<"b">>), Some(<<"a", "b">>)}
QuerySortOrders == {OptNone, Some(<<>>), Some(<<"Descending">>),
                    Some(<<"Ascending", "Descending">>)}

InitQuery ==
    /\ pc = "query"
    /\ argc = 0
    /\ file = [readable |-> FALSE, lines |-> <<>>]
    /\ headers = <<"a", "b">>
    /\ data \in SeqUpTo(QueryRows, MaxQueryRows)
    /\ soc_name_field_list = <<>>
    /\ soc_code_field_list = <<>>
    /\ certification_status_field_list = <<>>
    /\ case_number_field_list = <<>>
    /\ work_state_field_list = <<>>
    /\ top_occupations = NotCalled
    /\ top_states = NotCalled
    /\ out_occ = Absent
    /\ out_st = Absent
    /\ err = NoErr
    /\ call = NoCall

\* query_load(data, f, p, k, o) by a direct caller.  As the docstring asks, the
\* sort keys are among the projected columns.
CallQueryLoad ==
    /\ pc = "query"
    /\ call.fn = ""
    /\ \E f \in QueryFilters, p \in QueryProjections, k \in QuerySortKeys,
          o \in QuerySortOrders :
           /\ (p # OptNone /\ k # OptNone) => Range(k[1]) \subseteq Range(p[1])
           /\ LET r == query_load(data, f, p, k, o) IN
              call' = [fn |-> "query_load", filter |-> f, project_keys |-> p,
                       sort_keys |-> k, sort_order |-> o, part |-> 0, whole |-> 0,
                       err |-> r.err, rows |-> r.rows, val |-> 0]
    /\ UNCHANGED <<pc, argc, file, headers, data, soc_name_field_list,
                   soc_code_field_list, certification_status_field_list,
                   case_number_field_list, work_state_field_list, top_occupations,
                   top_states, out_occ, out_st, err>>

\* percentage(part, whole) by a direct caller
CallPercentage ==
    /\ pc = "query"
    /\ call.fn = ""
    /\ \E part \in 0..MaxPart, whole \in 0..MaxWhole :
           LET r == percentage(part, whole) IN
           call' = [fn |-> "percentage", filter |-> OptNone, project_keys |-> OptNone,
                    sort_keys |-> OptNone, sort_order |-> OptNone, part |-> part,
                    whole |-> whole, err |-> r.err, rows |-> <<>>, val |-> r.val]
    /\ UNCHANGED <<pc, argc, file, headers, data, soc_name_field_list,
                   soc_code_field_list, certification_status_field_list,
                   case_number_field_list, work_state_field_list, top_occupations,
                   top_states, out_occ, out_st, err>>

NextQuery == CallQueryLoad \/ CallPercentage

SpecQuery == InitQuery /\ [][NextQuery]_vars

\* ================================================================ claims
\* The data table as it was loaded, before any reconciliation.
Loaded == [i \in 1..(Len(file.lines) - 1) |-> dict_row(headers, file.lines[i + 1])]

Abs(n) == IF n < 0 THEN -n ELSE n

\* Some column of cols is non-empty in record x
HasNonEmpty(x, cols) == \E j \in 1..Len(cols) : ~IsEmpty(x[cols[j]])

\* The first position of cols whose column is non-empty in record x
FirstNonEmpty(x, cols) ==
    CHOOSE j \in 1..Len(cols) :
        /\ ~IsEmpty(x[cols[j]])
        /\ \A k \in 1..(j - 1) : IsEmpty(x[cols[k]])

\* The records of the (reconciled) table that pass the filter of each report
FilteredStates ==
    {i \in 1..Len(data) :
        /\ data[i][certification_status_field_list[1]] = "CERTIFIED"
        /\ ~IsEmpty(data[i][work_state_field_list[1]])}
FilteredOccupations ==
    {i \in 1..Len(data) :
        /\ data[i][certification_status_field_list[1]] = "CERTIFIED"
        /\ ~IsEmpty(data[i][soc_code_field_list[1]])
        /\ ~IsEmpty(data[i][soc_name_field_list[1]])}

\* The labels of the records F, and the number of records of F with label l
Labels(F, col) == {data[i][col] : i \in F}
CountOf(F, col, l) == Cardinality({i \in F : data[i][col] = l})

RECURSIVE SumCounts(_)
SumCounts(rows) ==
    IF Len(rows) = 0 THEN 0 ELSE rows[1][n_applications] + SumCounts(Tail(rows))

\* The rows partition the records F by their label in column col.
Partitions(rows, F, col, top) ==
    /\ \A l \in Labels(F, col) :
           Cardinality({k \in 1..Len(rows) : rows[k][top] = l}) = 1
    /\ \A k \in 1..Len(rows) :
           /\ rows[k][top] \in Labels(F, col)
           /\ rows[k][n_applications] = CountOf(F, col, rows[k][top])
    /\ SumCounts(rows) = Cardinality(F)

\* C1: when the count is large enough that nothing is truncated, the rows of a
\* report partition the filtered records: every label among them is in exactly
\* one row, the row's count is the number of filtered records with that label,
\* and the counts add up to the number of filtered records.
C1_Partition ==
    /\ (top_states.called
        /\ top_states.count >= Cardinality(Labels(FilteredStates, work_state_field_list[1])))
       => Partitions(top_states.rows, FilteredStates, work_state_field_list[1], "TOP_STATES")
    /\ (top_occupations.called
        /\ top_occupations.count
               >= Cardinality(Labels(FilteredOccupations, soc_name_field_list[1])))
       => Partitions(top_occupations.rows, FilteredOccupations, soc_name_field_list[1],
                     "TOP_OCCUPATIONS")

\* An untruncated states report of two groups, one of them of two records,
\* from a table with a record that does not pass the filter.
C1_Witness ==
    /\ top_states.called
    /\ top_states.count >= Cardinality(Labels(FilteredStates, work_state_field_list[1]))
    /\ Len(top_states.rows) = 2
    /\ top_states.rows[1][n_applications] = 2
    /\ Cardinality(FilteredStates) < Len(data)

\* (c1, l1) comes before (c2, l2): a larger count, or an equal count and a
\* smaller label.
RanksBefore(c1, l1, c2, l2) == c1 > c2 \/ (c1 = c2 /\ StrIndex(l1) < StrIndex(l2))

\* res holds the first res.count groups of the records F, best first.
IsTop(res, F, col, top) ==
    /\ Len(res.rows) <= res.count
    /\ Len(res.rows) = Min(res.count, Cardinality(Labels(F, col)))
    /\ \A k \in 1..Len(res.rows) :
           /\ res.rows[k][top] \in Labels(F, col)
           /\ res.rows[k][n_applications] = CountOf(F, col, res.rows[k][top])
    /\ \A k \in 1..(Len(res.rows) - 1) :
           RanksBefore(res.rows[k][n_applications], res.rows[k][top],
                       res.rows[k + 1][n_applications], res.rows[k + 1][top])
    /\ \A l \in Labels(F, col) \ {res.rows[k][top] : k \in 1..Len(res.rows)} :
           \A k \in 1..Len(res.rows) :
               RanksBefore(res.rows[k][n_applications], res.rows[k][top],
                           CountOf(F, col, l), l)

\* C2: for every count N >= 0 a report has at most N rows, and they are the
\* first N of all groups ordered by count descending, ties by label ascending:
\* consecutive rows are strictly in that order and no omitted group comes before
\* a returned one.
C2_TopN ==
    /\ top_states.called
       => IsTop(top_states, FilteredStates, work_state_field_list[1], "TOP_STATES")
    /\ top_occupations.called
       => IsTop(top_occupations, FilteredOccupations, soc_name_field_list[1],
                "TOP_OCCUPATIONS")

\* An occupations report cut to two rows of three groups: the first row has
\* the larger count, the second won its place on the label.
C2_Witness ==
    /\ top_occupations.called
    /\ top_occupations.count = 2
    /\ Cardinality(Labels(FilteredOccupations, soc_name_field_list[1])) = 3
    /\ Len(top_occupations.rows) = 2
    /\ top_occupations.rows[1][n_applications] = 2
    /\ top_occupations.rows[2][n_applications] = 1

\* C3 as stated: a report function fails whenever no record passes its filter.
C3_FailsWhenNothingPasses ==
    /\ (top_states.called /\ FilteredStates = {}) => top_states.err # ""
    /\ (top_occupations.called /\ FilteredOccupations = {}) => top_occupations.err # ""

\* C3, amended: when no record passes its filter a report function raises
\* nothing and returns the three column names with no rows (percentage is called
\* once per group, so never with a zero denominator).
C3_EmptyReport ==
    /\ (top_states.called /\ FilteredStates = {})
       => /\ top_states.err = ""
          /\ top_states.headers = <<"TOP_STATES", n_applications, percent>>
          /\ top_states.rows = <<>>
    /\ (top_occupations.called /\ FilteredOccupations = {})
       => /\ top_occupations.err = ""
          /\ top_occupations.headers = <<"TOP_OCCUPATIONS", n_applications, percent>>
          /\ top_occupations.rows = <<>>

\* A states report asked of a table whose records all fail the filter.
C3_Witness ==
    /\ top_states.called
    /\ Len(data) > 0
    /\ FilteredStates = {}

\* The percentage string of a row with count part among whole filtered records
\* is t/10 with one decimal and "%", t the tenths nearest to 1000 * part / whole.
IsPercentage(str, part, whole) ==
    \E t \in {(1000 * part) \div whole, (1000 * part) \div whole + 1} :
        /\ 2 * Abs(t * whole - 1000 * part) <= whole
        /\ str = ToString(t \div 10) \o "." \o ToString(t % 10) \o "%"

\* The tenths a percentage string of a row stands for
Tenths(str, part, whole) ==
    CHOOSE t \in {(1000 * part) \div whole, (1000 * part) \div whole + 1} :
        str = ToString(t \div 10) \o "." \o ToString(t % 10) \o "%"

RECURSIVE SumTenths(_, _)
SumTenths(rows, whole) ==
    IF Len(rows) = 0 THEN 0
    ELSE Tenths(rows[1][percent], rows[1][n_applications], whole)
         + SumTenths(Tail(rows), whole)

PercentagesOf(res, F, col) ==
    /\ \A k \in 1..Len(res.rows) :
           IsPercentage(res.rows[k][percent], res.rows[k][n_applications], Cardinality(F))
    /\ (Len(res.rows) > 0 /\ Len(res.rows) = Cardinality(Labels(F, col)))
       => Abs(SumTenths(res.rows, Cardinality(F)) - 1000) <= Len(res.rows)

\* C5: the percentage of every row, for every count, is 100 * row.count /
\* totalFilteredCount rounded to one decimal and followed by "%", where
\* totalFilteredCount counts all records that passed the filter, truncated away
\* or not; the percentages of an untruncated report add up to 100.0 within 0.1
\* times the number of groups.
C5_Percentage ==
    /\ top_states.called
       => PercentagesOf(top_states, FilteredStates, work_state_field_list[1])
    /\ top_occupations.called
       => PercentagesOf(top_occupations, FilteredOccupations, soc_name_field_list[1])

\* A states report cut to one row, "66.7%": two of the three filtered records.
C5_Witness ==
    /\ top_states.called
    /\ top_states.count = 1
    /\ Cardinality(FilteredStates) = 3
    /\ Len(top_states.rows) = 1
    /\ top_states.rows[1][n_applications] = 2
    /\ top_states.rows[1][percent] = "66.7%"

\* Record x is record x0 with the columns cols reconciled: the primary column
\* holds the first non-empty value of x0 along cols, it is empty only if all of
\* them are, and the other columns of cols are as in x0.
IsReconciled(x, x0, cols) ==
    /\ HasNonEmpty(x0, cols) => x[cols[1]] = x0[cols[FirstNonEmpty(x0, cols)]]
    /\ IsEmpty(x[cols[1]]) <=> ~HasNonEmpty(x0, cols)
    /\ \A j \in 2..Len(cols) : x[cols[j]] = x0[cols[j]]

\* C7: for the roles status, case number and work state resolved to more than
\* one column, after the reconciliation of a report function every record's
\* primary column holds the first non-empty value of the record's resolved
\* columns as loaded, scanning left to right; it stays empty only if all of them
\* are empty; every other resolved column keeps its loaded value.
C7_FirstNonEmpty ==
    /\ (top_occupations.called \/ top_states.called)
       => \A i \in 1..Len(data) :
              /\ Len(certification_status_field_list) > 1
                 => IsReconciled(data[i], Loaded[i], certification_status_field_list)
              /\ Len(case_number_field_list) > 1
                 => IsReconciled(data[i], Loaded[i], case_number_field_list)
    /\ (top_states.called /\ Len(work_state_field_list) > 1)
       => \A i \in 1..Len(data) : IsReconciled(data[i], Loaded[i], work_state_field_list)

\* After get_top_states: a record loaded with its first two work states empty
\* and the third "NY" holds "NY" in the primary one, and a record loaded with
\* the status "DENIED" before "CERTIFIED" is still "DENIED".
C7_Witness ==
    /\ top_states.called
    /\ Len(work_state_field_list) = 3
    /\ \E i \in 1..Len(data) :
           /\ IsEmpty(Loaded[i][work_state_field_list[1]])
           /\ IsEmpty(Loaded[i][work_state_field_list[2]])
           /\ Loaded[i][work_state_field_list[3]] = "NY"
           /\ data[i][work_state_field_list[1]] = "NY"
    /\ \E i \in 1..Len(data) :
           /\ Loaded[i][certification_status_field_list[1]] = "DENIED"
           /\ Loaded[i][certification_status_field_list[2]] = "CERTIFIED"
           /\ data[i][certification_status_field_list[1]] = "DENIED"

\* C9: joint reconciliation of the occupation with more than one code column
\* (and as many name columns): a record whose primary code is non-empty keeps
\* its primary code and name; a record whose primary code is empty and that has
\* a non-empty later code gets both the code and the name of the first position
\* j whose code is non-empty; the primary (code, name) pair always comes from
\* one position.
C9_JointOccupation ==
    (top_occupations.called /\ Len(soc_code_field_list) > 1)
    => \A i \in 1..Len(data) :
           LET x0 == Loaded[i]
               x == data[i]
               codes == soc_code_field_list
               names == soc_name_field_list
           IN  /\ ~IsEmpty(x0[codes[1]])
                  => /\ x[codes[1]] = x0[codes[1]]
                     /\ x[names[1]] = x0[names[1]]
               /\ (IsEmpty(x0[codes[1]]) /\ HasNonEmpty(x0, codes))
                  => /\ x[codes[1]] = x0[codes[FirstNonEmpty(x0, codes)]]
                     /\ x[names[1]] = x0[names[FirstNonEmpty(x0, codes)]]
               /\ \E j \in 1..Len(codes) :
                      /\ x[codes[1]] = x0[codes[j]]
                      /\ x[names[1]] = x0[names[j]]

\* After get_top_occupations: a record loaded with an empty primary code and
\* the primary name "MANAGERS" holds the second pair, ("13-2011", "ACCOUNTANTS").
C9_Witness ==
    /\ top_occupations.called
    /\ Len(soc_code_field_list) = 3
    /\ \E i \in 1..Len(data) :
           /\ Loaded[i][soc_code_field_list[1]] = ""
           /\ Loaded[i][soc_name_field_list[1]] = "MANAGERS"
           /\ data[i][soc_code_field_list[1]] = "13-2011"
           /\ data[i][soc_name_field_list[1]] = "ACCOUNTANTS"

\* C10: the order of the two report calls does not matter.  Whatever calls came
\* before, each report on the table as it now is has the rows it has on the
\* table as loaded, the rows a call returned are those of the same call on the
\* table as loaded, and reconciling the statuses and the case numbers of a
\* reconciled table again changes nothing.
C10_OrderIndependent ==
    /\ get_top_states(TopN, data, work_state_field_list,
                      certification_status_field_list, case_number_field_list).rows
       = get_top_states(TopN, Loaded, work_state_field_list,
                        certification_status_field_list, case_number_field_list).rows
    /\ get_top_occupations(TopN, data, soc_name_field_list, soc_code_field_list,
                           certification_status_field_list, case_number_field_list).rows
       = get_top_occupations(TopN, Loaded, soc_name_field_list, soc_code_field_list,
                             certification_status_field_list,
                             case_number_field_list).rows
    /\ top_states.called
       => top_states.rows
          = get_top_states(top_states.count, Loaded, work_state_field_list,
                           certification_status_field_list, case_number_field_list).rows
    /\ top_occupations.called
       => top_occupations.rows
          = get_top_occupations(top_occupations.count, Loaded, soc_name_field_list,
                                soc_code_field_list, certification_status_field_list,
                                case_number_field_list).rows
    /\ (top_states.called \/ top_occupations.called)
       => /\ reconcile(data, certification_status_field_list) = data
          /\ reconcile(data, case_number_field_list) = data

\* After get_top_occupations and before get_top_states: the reconciliation has
\* made a record "CERTIFIED" whose primary status was loaded empty, and has set
\* a primary case number; the states report has a row.
C10_Witness ==
    /\ top_occupations.called
    /\ ~top_states.called
    /\ \E i \in 1..Len(data) :
           /\ Loaded[i][certification_status_field_list[1]] = ""
           /\ data[i][certification_status_field_list[1]] = "CERTIFIED"
    /\ \E i \in 1..Len(data) :
           /\ Loaded[i][case_number_field_list[1]] = ""
           /\ data[i][case_number_field_list[1]] = "I-2"
    /\ Len(get_top_states(TopN, data, work_state_field_list,
                          certification_status_field_list,
                          case_number_field_list).rows) > 0

\* The number of sort keys of a call, an absent list counting as none
NKeys(sort_keys) == IF sort_keys = OptNone THEN 0 ELSE Len(sort_keys[1])

\* C6 as stated: a query_load call with sort_order supplied fails whenever the
\* number of directions differs from the number of sort keys, an absent
\* sort_keys counting as zero keys.
C6_FailsOnAnyMismatch ==
    (/\ call.fn = "query_load"
     /\ call.sort_order # OptNone
     /\ Len(call.sort_order[1]) # NKeys(call.sort_keys))
    => call.err = "ValueError"

\* C6, amended: a query_load call with both sort_keys and sort_order supplied
\* fails with ValueError and returns nothing whenever their lengths differ,
\* whatever the filter and the projection; with sort_keys absent sort_order is
\* not looked at and the call returns.
C6_FailsOnMismatchWithKeys ==
    /\ (/\ call.fn = "query_load"
        /\ call.sort_keys # OptNone
        /\ call.sort_order # OptNone
        /\ Len(call.sort_order[1]) # Len(call.sort_keys[1]))
       => /\ call.err = "ValueError"
          /\ call.rows = <<>>
    /\ (call.fn = "query_load" /\ call.sort_keys = OptNone) => call.err = ""

\* query_load(data, filter, ["a", "b"], sort_keys=["a", "b"],
\* sort_order=["Descending"]) on a table of two rows has failed.
C6_Witness ==
    /\ call.fn = "query_load"
    /\ Len(data) = 2
    /\ call.filter # OptNone
    /\ call.project_keys = Some(<<"a", "b">>)
    /\ call.sort_keys = Some(<<"a", "b">>)
    /\ call.sort_order = Some(<<"Descending">>)
    /\ call.err = "ValueError"

\* C4 as stated: in every run of main that ends in an error, neither output
\* file has been written (a file that a failed write left incomplete is not
\* counted as written here).
C4_NoOutputOnError ==
    pc = "failed" => (out_occ.state # "written" /\ out_st.state # "written")

\* The lines of a report file: the column names, then the three values of
\* each row.
ReportLines(res) ==
    <<res.headers>> \o
    [i \in 1..Len(res.rows) |->
        <<res.rows[i][res.headers[1]], res.rows[i][n_applications], res.rows[i][percent]>>]

\* C4, amended: a run of main that ends in an error raised before the first
\* write_data call (argument count, read failure, empty dataset, resolution,
\* query or percentage failure) has written neither file; a failure writing the
\* occupations file leaves no states file; a failure writing the states file
\* comes after the occupations file was written in full, and that file stays.
C4_NoOutputBeforeWrites ==
    /\ (pc = "failed" /\ err.at \notin {"write_occ", "write_st"})
       => (out_occ = Absent /\ out_st = Absent)
    /\ (pc = "failed" /\ err.at = "write_occ")
       => (out_occ.state \in {"absent", "partial"} /\ out_st = Absent)
    /\ (pc = "failed" /\ err.at = "write_st")
       => /\ out_occ = [state |-> "written", lines |-> ReportLines(top_occupations)]
          /\ out_st.state \in {"absent", "partial"}

\* A run that failed writing the states file, the occupations file holding its
\* header line and two rows.
C4_Witness ==
    /\ pc = "failed"
    /\ err = [type |-> "IOError", at |-> "write_st"]
    /\ out_occ.state = "written"
    /\ Len(out_occ.lines) = 3

\* The positions of hs whose name is in the static list / matches the pattern
StaticPositions(hs, static_list) ==
    {i \in 1..Len(hs) : \E j \in 1..Len(static_list) : static_list[j] = hs[i]}
RegexPositions(hs, re) == {i \in 1..Len(hs) : Match(re, hs[i])}

\* The names of hs at the positions S, in the order of hs
AtPositions(hs, S) ==
    [k \in 1..Cardinality(S) |->
        hs[CHOOSE i \in S : Cardinality({j \in S : j < i}) = k - 1]]

\* The field list of a role as C8 has it
Resolved(hs, static_list, re) ==
    IF StaticPositions(hs, static_list) # {}
    THEN AtPositions(hs, StaticPositions(hs, static_list))
    ELSE AtPositions(hs, RegexPositions(hs, re))

\* main has resolved the columns
PastResolve ==
    \/ pc \in {"occupations", "states", "write_occ", "write_st", "done"}
    \/ pc = "failed" /\ err.at \notin {"args", "load"}

====
